---- MODULE Spec2Model ----
(***************************************************************************)
(* Model of mcp-weather-stdio: the tool handler call_tool                  *)
(* (weather_server.py), the HTTP fetch client Weather (weather_util/       *)
(* client.py) and the forecast data model (weather_util/forecast.py).      *)
(*                                                                         *)
(* Python values are modelled as follows.  A str that the code converts    *)
(* (int(), strptime) is a sequence of one-character strings, so that the   *)
(* conversion is computed character by character; a dict is a function     *)
(* whose domain is its key set; a list is a sequence; an exception is a    *)
(* record [type, msg].                                                     *)
(***************************************************************************)
EXTENDS Integers, Sequences, FiniteSets, TLC

(***************************************************************************)
(* Bounds of the model.                                                    *)
(***************************************************************************)
\* invocations of call_tool in flight together in SpecConc
MaxCalls == 2
\* longest weather[] array of a generated document in SpecBuild
MaxDays == 2

(***************************************************************************)
(* Characters and str helpers.                                             *)
(***************************************************************************)
Digits == <<"0", "1", "2", "3", "4", "5", "6", "7", "8", "9">>

IsDigit(c) == \E i \in 1..10 : Digits[i] = c

DigitVal(c) == (CHOOSE i \in 1..10 : Digits[i] = c) - 1

\* the Python str a character sequence stands for
RECURSIVE Join(_)
Join(s) == IF s = <<>> THEN "" ELSE Head(s) \o Join(Tail(s))

\* str.strip() restricted to the blank character
RECURSIVE LStrip(_)
LStrip(s) == IF s # <<>> /\ Head(s) = " " THEN LStrip(Tail(s)) ELSE s

RECURSIVE RStrip(_)
RStrip(s) ==
  IF s # <<>> /\ s[Len(s)] = " " THEN RStrip(SubSeq(s, 1, Len(s) - 1)) ELSE s

Strip(s) == RStrip(LStrip(s))

\* value of a sequence of digits and single underscores, read left to right
RECURSIVE DigitsValue(_, _)
DigitsValue(s, acc) ==
  IF s = <<>> THEN acc
  ELSE IF Head(s) = "_" THEN DigitsValue(Tail(s), acc)
  ELSE DigitsValue(Tail(s), 10 * acc + DigitVal(Head(s)))

\* a non-negative decimal rendered with at least `width` digits
RECURSIVE ZeroPad(_, _)
ZeroPad(n, width) ==
  IF n < 10 /\ width <= 1 THEN <<Digits[n + 1]>>
  ELSE Append(ZeroPad(n \div 10, width - 1), Digits[(n % 10) + 1])

(***************************************************************************)
(* Exceptions and results.  A computation yields [ok |-> TRUE, val |-> v]  *)
(* or [ok |-> FALSE, exc |-> e].                                           *)
(***************************************************************************)
Exc(type, msg) == [type |-> type, msg |-> msg]

KeyError(key) == Exc("KeyError", "'" \o key \o "'")

IndexError == Exc("IndexError", "list index out of range")

(***************************************************************************)
(* int(str): surrounding blanks are stripped, one sign is allowed, the     *)
(* rest is digits with single underscores between them.                    *)
(***************************************************************************)
IsIntBody(b) ==
  /\ b # <<>>
  /\ \A i \in 1..Len(b) : IsDigit(b[i]) \/ b[i] = "_"
  /\ IsDigit(b[1]) /\ IsDigit(b[Len(b)])
  /\ \A i \in 1..(Len(b) - 1) : ~(b[i] = "_" /\ b[i + 1] = "_")

\* int() of the stripped text t of s, whose sign has been split off
IntOfBody(body, negative, s) ==
  IF IsIntBody(body)
    THEN [ok |-> TRUE,
          val |-> IF negative THEN 0 - DigitsValue(body, 0)
                  ELSE DigitsValue(body, 0)]
  ELSE [ok |-> FALSE,
        exc |-> Exc("ValueError",
                    "invalid literal for int() with base 10: '"
                      \o Join(s) \o "'")]

IntOfStripped(t, s) ==
  IF t # <<>> /\ Head(t) \in {"+", "-"}
    THEN IntOfBody(Tail(t), Head(t) = "-", s)
  ELSE IntOfBody(t, FALSE, s)

PyInt(s) == IntOfStripped(Strip(s), s)

(***************************************************************************)
(* datetime.strptime(s, '%Y-%m-%d').date() and date.strftime('%Y-%m-%d').  *)
(* The format compiles to \d\d\d\d-(1[0-2]|0[1-9]|[1-9])-(3[01]|[12]\d|     *)
(* 0[1-9]|[1-9]| [1-9]) and must match the whole string; the date must     *)
(* exist in the calendar.                                                  *)
(***************************************************************************)
RECURSIVE Split(_, _)
Split(s, sep) ==
  IF \A i \in 1..Len(s) : s[i] # sep THEN <<s>>
  ELSE LET k == CHOOSE i \in 1..Len(s) :
                  s[i] = sep /\ \A j \in 1..(i - 1) : s[j] # sep
       IN <<SubSeq(s, 1, k - 1)>> \o Split(SubSeq(s, k + 1, Len(s)), sep)

AllDigits(p) == \A i \in 1..Len(p) : IsDigit(p[i])

IsYearField(p) == Len(p) = 4 /\ AllDigits(p)

IsMonthField(p) ==
  /\ Len(p) \in {1, 2}
  /\ AllDigits(p)
  /\ DigitsValue(p, 0) \in 1..12

IsDayField(p) ==
  \/ Len(p) \in {1, 2} /\ AllDigits(p) /\ DigitsValue(p, 0) \in 1..31
  \/ Len(p) = 2 /\ p[1] = " " /\ IsDigit(p[2]) /\ p[2] # "0"

IsLeap(y) == (y % 4 = 0 /\ y % 100 # 0) \/ y % 400 = 0

DaysInMonth(y, m) ==
  IF m = 2 THEN (IF IsLeap(y) THEN 29 ELSE 28)
  ELSE IF m \in {4, 6, 9, 11} THEN 30 ELSE 31

DateOf(y, m, d) ==
  IF y < 1
    THEN [ok |-> FALSE, exc |-> Exc("ValueError", "year 0 is out of range")]
  ELSE IF d > DaysInMonth(y, m)
    THEN [ok |-> FALSE,
          exc |-> Exc("ValueError", "day is out of range for month")]
  ELSE [ok |-> TRUE, val |-> [year |-> y, month |-> m, day |-> d]]

DateOfParts(parts, s) ==
  IF Len(parts) = 3 /\ IsYearField(parts[1]) /\ IsMonthField(parts[2])
       /\ IsDayField(parts[3])
    THEN DateOf(DigitsValue(parts[1], 0), DigitsValue(parts[2], 0),
                DigitsValue(LStrip(parts[3]), 0))
  ELSE [ok |-> FALSE,
        exc |-> Exc("ValueError",
                    "time data '" \o Join(s)
                      \o "' does not match format '%Y-%m-%d'")]

ParseDate(s) == DateOfParts(Split(s, "-"), s)

FormatDate(d) ==
  ZeroPad(d.year, 4) \o <<"-">> \o ZeroPad(d.month, 2) \o <<"-">>
    \o ZeroPad(d.day, 2)

(***************************************************************************)
(* Forecast data model (forecast.py).  Every constructor reads its fields  *)
(* in source order; the first failing read raises.  Of the many fields     *)
(* that are read by the same two steps (key lookup, then int()/float()),   *)
(* the model keeps those the tool handler serialises plus one per          *)
(* constructor; enum-typed fields (Kind, WindDirection, UltraViolet,       *)
(* Phase) and the coordinate pair are left out: they are read-only.        *)
(*                                                                         *)
(* A constructor that is handed a dict yields, besides its value or its    *)
(* exception, the dict as the call leaves it (field json).                 *)
(***************************************************************************)
METRIC == [temperature |-> "C"]

IMPERIAL == [temperature |-> "F"]

Ok(v, j) == [ok |-> TRUE, val |-> v, json |-> j]

Fail(e, j) == [ok |-> FALSE, exc |-> e, json |-> j]

\* json[key]
Get(json, key) ==
  IF key \in DOMAIN json THEN [ok |-> TRUE, val |-> json[key]]
  ELSE [ok |-> FALSE, exc |-> KeyError(key)]

\* a conversion applied to the result of a lookup
IntOf(g) == IF g.ok THEN PyInt(g.val) ELSE g

DateOfField(g) == IF g.ok THEN ParseDate(g.val) ELSE g

\* int(json[key])
IntField(json, key) == IntOf(Get(json, key))

\* list[0]
First(g) ==
  IF ~g.ok THEN g
  ELSE IF g.val = <<>> THEN [ok |-> FALSE, exc |-> IndexError]
  ELSE [ok |-> TRUE, val |-> g.val[1]]

\* json[key][0]
FirstOf(json, key) == First(Get(json, key))

\* the exception of the first failing step of a sequence of results
FirstExc(steps) ==
  steps[CHOOSE i \in 1..Len(steps) :
          ~steps[i].ok /\ \A j \in 1..(i - 1) : steps[j].ok].exc

AllOk(steps) == \A i \in 1..Len(steps) : steps[i].ok

ValueOf(first) == IF first.ok THEN Get(first.val, "value") ELSE first

\* json[f'lang_{locale}'][0]['value'], or json['weatherDesc'][0]['value']
Description(json, locale) ==
  ValueOf(FirstOf(json, IF locale = "en" THEN "weatherDesc"
                        ELSE "lang_" \o locale))

\* the fields of a BaseForecast from the results of reading them
BaseFields(steps) ==
  IF AllOk(steps)
    THEN [ok |-> TRUE,
          val |-> [humidity |-> steps[2].val,
                   feels_like |-> steps[3].val,
                   temperature |-> steps[4].val,
                   description |-> Strip(steps[1].val)]]
  ELSE [ok |-> FALSE, exc |-> FirstExc(steps)]

BaseForecast(json, unit, locale) ==
  BaseFields(<< Description(json, locale),
                IntField(json, "humidity"),
                IntField(json, "FeelsLike" \o unit.temperature),
                IntField(json, "temp_" \o unit.temperature) >>)

\* if new not in json: json[new] = json.pop(old)
Rename(json, new, old) ==
  IF new \in DOMAIN json THEN Ok(TRUE, json)
  ELSE IF old \notin DOMAIN json THEN Fail(KeyError(old), json)
  ELSE Ok(TRUE, [k \in (DOMAIN json \ {old}) \cup {new} |->
                   IF k = new THEN json[old] ELSE json[k]])

\* the second renaming, unless the first one raised
ThenRename(r, new, old) == IF r.ok THEN Rename(r.json, new, old) ELSE r

\* the fields of an HourlyForecast from the results of reading them;
\* super().__init__ comes last
HourlyFields(json, rain, base) ==
  IF ~rain.ok THEN Fail(rain.exc, json)
  ELSE IF ~base.ok THEN Fail(base.exc, json)
  ELSE Ok([chances_of_rain |-> rain.val, base |-> base.val], json)

\* HourlyForecast.__init__ after its two renamings
HourlyRead(r, unit, locale) ==
  IF ~r.ok THEN r
  ELSE HourlyFields(r.json, IntField(r.json, "chanceofrain"),
                    BaseForecast(r.json, unit, locale))

HourlyForecast(json, unit, locale) ==
  HourlyRead(ThenRename(Rename(json, "temp_C", "tempC"), "temp_F", "tempF"),
             unit, locale)

\* a list comprehension over constructors: the first element's result h,
\* the result rest for the remaining elements, which are evaluated only
\* if h succeeded, and the remaining elements tail as they were
Cons(h, rest, tail) ==
  IF ~h.ok THEN Fail(h.exc, <<h.json>> \o tail)
  ELSE IF ~rest.ok THEN Fail(rest.exc, <<h.json>> \o rest.json)
  ELSE Ok(<<h.val>> \o rest.val, <<h.json>> \o rest.json)

\* [HourlyForecast(elem, unit, locale) for elem in hours]
RECURSIVE HourlyForecasts(_, _, _)
HourlyForecasts(hours, unit, locale) ==
  IF hours = <<>> THEN Ok(<<>>, <<>>)
  ELSE Cons(HourlyForecast(Head(hours), unit, locale),
            HourlyForecasts(Tail(hours), unit, locale), Tail(hours))

\* the fields of a DailyForecast from the results of reading them
DailyFields(json, steps, hourly) ==
  IF ~hourly.ok
    THEN Fail(hourly.exc, [json EXCEPT !["hourly"] = hourly.json])
  ELSE Ok([date |-> steps[1].val,
           lowest_temperature |-> steps[2].val,
           highest_temperature |-> steps[3].val,
           temperature |-> steps[4].val,
           hourly_forecasts |-> hourly.val],
          [json EXCEPT !["hourly"] = hourly.json])

DailyRead(json, steps, unit, locale) ==
  IF ~AllOk(steps) THEN Fail(FirstExc(steps), json)
  ELSE DailyFields(json, steps,
                   HourlyForecasts(json["hourly"], unit, locale))

DailyForecast(json, unit, locale) ==
  DailyRead(json,
            << DateOfField(Get(json, "date")),
               IntField(json, "mintemp" \o unit.temperature),
               IntField(json, "maxtemp" \o unit.temperature),
               IntField(json, "avgtemp" \o unit.temperature),
               Get(json, "hourly") >>,
            unit, locale)

\* [DailyForecast(elem, unit, locale) for elem in days]
RECURSIVE DailyForecasts(_, _, _)
DailyForecasts(days, unit, locale) ==
  IF days = <<>> THEN Ok(<<>>, <<>>)
  ELSE Cons(DailyForecast(Head(days), unit, locale),
            DailyForecasts(Tail(days), unit, locale), Tail(days))

\* the fields of a Forecast from the results of reading them;
\* super().__init__(current, unit, locale) comes last
ForecastFields(json, steps, daily, base) ==
  IF ~daily.ok THEN Fail(daily.exc, [json EXCEPT !["weather"] = daily.json])
  ELSE IF ~base.ok
    THEN Fail(base.exc, [json EXCEPT !["weather"] = daily.json])
  ELSE Ok([local_population |-> steps[3].val,
           daily_forecasts |-> daily.val,
           base |-> base.val],
          [json EXCEPT !["weather"] = daily.json])

ForecastRead(json, steps, unit, locale) ==
  IF ~AllOk(steps) THEN Fail(FirstExc(steps), json)
  ELSE ForecastFields(json, steps,
                      DailyForecasts(json["weather"], unit, locale),
                      BaseForecast(steps[1].val, unit, locale))

\* int(nearest['population'])
Population(nearest) ==
  IF nearest.ok THEN IntField(nearest.val, "population") ELSE nearest

Forecast(json, unit, locale) ==
  ForecastRead(json,
               << FirstOf(json, "current_condition"),
                  FirstOf(json, "nearest_area"),
                  Population(FirstOf(json, "nearest_area")),
                  Get(json, "weather") >>,
               unit, locale)

(***************************************************************************)
(* Sample documents, in the shape wttr.in answers ?format=j1 (reduced to   *)
(* the keys the modelled constructors read).  The hourly records of the    *)
(* service carry tempC/tempF; current_condition carries temp_C/temp_F.     *)
(***************************************************************************)
Current(tempF, tempC) ==
  [weatherDesc |-> <<[value |-> <<"S", "u", "n", "n", "y", " ">>]>>,
   humidity |-> <<"5", "0">>,
   FeelsLikeF |-> tempF, FeelsLikeC |-> tempC,
   temp_F |-> tempF, temp_C |-> tempC]

\* an hourly record as the service sends it
Hourly(tempF, tempC) ==
  [weatherDesc |-> <<[value |-> <<"R", "a", "i", "n">>]>>,
   humidity |-> <<"8", "1">>,
   chanceofrain |-> <<"6", "5">>,
   FeelsLikeF |-> tempF, FeelsLikeC |-> tempC,
   tempF |-> tempF, tempC |-> tempC]

\* an hourly record that already carries the normalised keys
HourlyNormalised(tempF, tempC) ==
  [weatherDesc |-> <<[value |-> <<"F", "o", "g">>]>>,
   humidity |-> <<"9", "0">>,
   chanceofrain |-> <<"0">>,
   FeelsLikeF |-> tempF, FeelsLikeC |-> tempC,
   temp_F |-> tempF, temp_C |-> tempC]

\* an hourly record with neither spelling of the Fahrenheit temperature
HourlyNoFahrenheit(tempC) ==
  [weatherDesc |-> <<[value |-> <<"F", "o", "g">>]>>,
   humidity |-> <<"9", "0">>,
   chanceofrain |-> <<"0">>,
   FeelsLikeF |-> <<"4", "0">>, FeelsLikeC |-> tempC,
   tempC |-> tempC]

Day(date, maxF, minF, maxC, minC, hourly) ==
  [date |-> date,
   maxtempF |-> maxF, mintempF |-> minF, avgtempF |-> minF,
   maxtempC |-> maxC, mintempC |-> minC, avgtempC |-> minC,
   hourly |-> hourly]

Document(current, weather) ==
  [current_condition |-> <<current>>,
   nearest_area |-> <<[population |-> <<"3", "4", "2", "6", "3", "5", "4">>]>>,
   weather |-> weather]

Day1 ==
  Day(<<"2", "0", "2", "4", "-", "0", "2", "-", "2", "8">>,
      <<"5", "0">>, <<"3", "9">>, <<"1", "0">>, <<"4">>,
      <<Hourly(<<"4", "1">>, <<"5">>), Hourly(<<"4", "8">>, <<"9">>)>>)

Day2 ==
  Day(<<"2", "0", "2", "4", "-", "2", "-", "2", "9">>,
      <<"4", "6">>, <<"3", "0">>, <<"8">>, <<"-", "1">>,
      <<HourlyNormalised(<<"3", "3">>, <<"1">>)>>)

Day3 ==
  Day(<<"2", "0", "2", "4", "-", "0", "3", "-", "0", "1">>,
      <<"6", "1">>, <<"4", "4">>, <<"1", "6">>, <<"7">>,
      <<Hourly(<<"5", "5">>, <<"1", "3">>)>>)

\* a day whose date does not exist (2023 is no leap year)
DayBadDate ==
  Day(<<"2", "0", "2", "3", "-", "0", "2", "-", "2", "9">>,
      <<"5", "0">>, <<"3", "9">>, <<"1", "0">>, <<"4">>,
      <<Hourly(<<"4", "1">>, <<"5">>)>>)

\* a day whose second hourly record has an unparsable temperature
DayBadHour ==
  Day(<<"2", "0", "2", "4", "-", "0", "3", "-", "0", "2">>,
      <<"5", "2">>, <<"4", "0">>, <<"1", "1">>, <<"4">>,
      <<Hourly(<<"4", "1">>, <<"5">>), Hourly(<<"n", "/", "a">>, <<"5">>)>>)

\* a day whose hourly record lacks tempF and temp_F
DayNoFahrenheit ==
  Day(<<"2", "0", "2", "4", "-", "0", "3", "-", "0", "3">>,
      <<"5", "2">>, <<"4", "0">>, <<"1", "1">>, <<"4">>,
      <<HourlyNoFahrenheit(<<"5">>)>>)

GoodCurrent == Current(<<"4", "5">>, <<"7">>)

BadCurrent == Current(<<>>, <<"7">>)

DocBerlin == Document(GoodCurrent, <<Day1, Day2, Day3>>)

DocOneDay == Document(GoodCurrent, <<Day2>>)

DocNoDays == Document(GoodCurrent, <<>>)

DocBadHour == Document(GoodCurrent, <<Day1, DayBadHour>>)

DocBadCurrent == Document(BadCurrent, <<Day1>>)

\* a JSON object of another shape (no "weather" key)
DocNoWeather ==
  [current_condition |-> <<GoodCurrent>>,
   nearest_area |-> <<[population |-> <<"1">>]>>]

SampleDocs ==
  {DocBerlin, DocOneDay, DocNoDays, DocBadHour, DocBadCurrent, DocNoWeather}

(***************************************************************************)
(* HTTP replies.  A body is empty, a non-empty text that is not JSON, or a *)
(* JSON document; a reply carries a status and a body, or is a transport   *)
(* failure (httpx.RequestError) with no reply at all.  1xx/3xx statuses    *)
(* are not in the reply sets.                                              *)
(***************************************************************************)
EmptyBody == [form |-> "empty", doc |-> <<>>]

TextBody == [form |-> "text", doc |-> <<>>]

JsonBody(d) == [form |-> "json", doc |-> d]

Response(status, body) == [status |-> status, body |-> body, error |-> "none"]

TransportFailure(e) == [status |-> 0, body |-> EmptyBody, error |-> e]

Responses ==
  {Response(200, JsonBody(d)) : d \in SampleDocs}
    \cup {Response(200, TextBody), Response(200, EmptyBody),
          Response(404, EmptyBody), Response(404, TextBody),
          Response(404, JsonBody(DocBerlin)),
          Response(404, JsonBody(DocNoWeather)),
          Response(500, EmptyBody), Response(500, JsonBody(DocBerlin)),
          Response(503, TextBody),
          TransportFailure("ConnectError"), TransportFailure("ReadTimeout")}

\* the reply set of the runs with several invocations in flight
ConcResponses ==
  {Response(200, JsonBody(DocOneDay)), Response(200, TextBody),
   Response(404, JsonBody(DocOneDay)), Response(500, EmptyBody),
   TransportFailure("ConnectError")}

(***************************************************************************)
(* Tool requests: a tool name and the arguments value, which is a dict     *)
(* (items: key -> value) or a value of another type.                       *)
(***************************************************************************)
Str(text) == [type |-> "str", text |-> text]

NoneValue == [type |-> "NoneType", text |-> ""]

Dict(items) == [type |-> "dict", items |-> items]

NotADict(type) == [type |-> type, items |-> <<>>]

Request(name, arguments) == [name |-> name, arguments |-> arguments]

ArgumentValues ==
  {Dict([location_name |-> Str("Berlin")]),
   Dict([location_name |-> Str("New York"), units |-> Str("metric")]),
   Dict([location_name |-> NoneValue]),
   Dict([location |-> Str("Berlin")]),
   Dict(<<>>),
   NotADict("NoneType"),
   NotADict("list")}

Requests ==
  {Request(n, a) : n \in {"get_current_weather", "get_forecast"},
                   a \in ArgumentValues}

ConcRequests ==
  {Request("get_current_weather", Dict([location_name |-> Str("Berlin")])),
   Request("get_current_weather", Dict(<<>>)),
   Request("get_forecast", Dict([location_name |-> Str("Berlin")]))}

(***************************************************************************)
(* HTTP fetch client (client.py).                                          *)
(***************************************************************************)
max_retries == 3

\* Weather(locale='en', unit='imperial') as call_tool constructs it
WeatherUnit(unit) == IF unit = "imperial" THEN IMPERIAL ELSE METRIC

IsRequestError(e) == e.type \in {"ConnectError", "ReadTimeout"}

\* response.text is truthy
HasText(resp) == resp.body.form # "empty"

\* response.raise_for_status()
RaiseForStatus(resp) ==
  IF resp.status \in 200..299 THEN [ok |-> TRUE, val |-> resp]
  ELSE [ok |-> FALSE,
        exc |-> Exc("HTTPStatusError",
                    "HTTP status " \o Join(ZeroPad(resp.status, 3)))]

\* the result of _format_content from that of the Forecast constructor
Parsed(f) ==
  IF f.ok THEN [ok |-> TRUE, val |-> f.val] ELSE [ok |-> FALSE, exc |-> f.exc]

\* json.loads(content), then Forecast(data, self.unit, self.locale); both
\* except clauses of _format_content log and re-raise
format_content(body, unit, locale) ==
  IF body.form # "json"
    THEN [ok |-> FALSE,
          exc |-> Exc("JSONDecodeError", "Expecting value")]
  ELSE Parsed(Forecast(body.doc, unit, locale))

\* faulty variant: the 404-with-content case is never recognised
IsPartialContentNever(resp) == FALSE

\* the 404-with-content test of _fetch_url
IsPartialContent(resp) == resp.status = 404 /\ HasText(resp)

\* response.raise_for_status(), then the parse of the body
ParseIfSuccess(st, resp, unit, locale) ==
  IF ~st.ok THEN st ELSE format_content(resp.body, unit, locale)

\* the try block of one loop iteration of _fetch_url (raw = False)
TryBody(resp, unit, locale) ==
  IF resp.error # "none"
    THEN [ok |-> FALSE, exc |-> Exc(resp.error, "request failed")]
  ELSE IF IsPartialContent(resp)
    THEN format_content(resp.body, unit, locale)
  ELSE ParseIfSuccess(RaiseForStatus(resp), resp, unit, locale)

\* what one loop iteration does next
Return(v) == [kind |-> "return", val |-> v]

Raise(e) == [kind |-> "raise", exc |-> e]

Sleep(secs) == [kind |-> "sleep", secs |-> secs]

\* faulty variant: the backoff does not grow with the attempt number
BackoffConstant(attempt) == 1

\* asyncio.sleep(1 * (attempt + 1))
Backoff(attempt) == 1 * (attempt + 1)

\* faulty variant: the retry bound is off by one
IsLastAttemptLate(attempt) == attempt = max_retries

IsLastAttempt(attempt) == attempt = max_retries - 1

\* except httpx.HTTPStatusError
OnHTTPStatusError(attempt, e) ==
  IF IsLastAttempt(attempt) THEN Raise(e) ELSE Sleep(Backoff(attempt))

\* faulty variant: transport failures are retried like status failures
OnRequestErrorRetry(attempt, e) == OnHTTPStatusError(attempt, e)

\* except httpx.RequestError
OnRequestError(attempt, e) == Raise(e)

\* faulty variant: parse errors are retried like status failures
OnExceptionRetry(attempt, e) == OnHTTPStatusError(attempt, e)

\* except Exception
OnException(attempt, e) == Raise(e)

\* the return, or the except clause that handles what the try block raised
Dispatch(attempt, r) ==
  IF r.ok THEN Return(r.val)
  ELSE IF r.exc.type = "HTTPStatusError"
    THEN OnHTTPStatusError(attempt, r.exc)
  ELSE IF IsRequestError(r.exc) THEN OnRequestError(attempt, r.exc)
  ELSE OnException(attempt, r.exc)

\* one iteration of the retry loop, given the reply to its request
fetch_url_attempt(attempt, resp, unit, locale) ==
  Dispatch(attempt, TryBody(resp, unit, locale))

(***************************************************************************)
(* Tool handler (weather_server.py).                                       *)
(***************************************************************************)
NoError == Exc("none", "")

\* faulty variant: the arguments are checked ahead of the tool name
ValidateArgumentsFirst(name, arguments) ==
  IF arguments.type # "dict"
       \/ "location_name" \notin DOMAIN arguments.items
    THEN Exc("ValueError", "Invalid weather arguments")
  ELSE IF name # "get_current_weather"
    THEN Exc("ValueError", "Unknown tool: " \o name)
  ELSE NoError

\* the two checks ahead of the try block of call_tool
Validate(name, arguments) ==
  IF name # "get_current_weather"
    THEN Exc("ValueError", "Unknown tool: " \o name)
  ELSE IF arguments.type # "dict"
            \/ "location_name" \notin DOMAIN arguments.items
    THEN Exc("ValueError", "Invalid weather arguments")
  ELSE NoError

\* faulty variant: the exception is re-raised as it is
WrapNothing(e) == e

\* except Exception as e: raise RuntimeError(f"Weather API error: {str(e)}")
Wrap(e) == Exc("RuntimeError", "Weather API error: " \o e.msg)

\* quote_plus(location) accepts str only
QuotePlus(location) ==
  IF location.type = "str" THEN [ok |-> TRUE, val |-> location.text]
  ELSE [ok |-> FALSE,
        exc |-> Exc("TypeError",
                    "can only concatenate str (not \"bytes\") to str")]

\* faulty variant: each day is put in front of the list
RECURSIVE ForecastsReversed(_)
ForecastsReversed(daily) ==
  IF daily = <<>> THEN <<>>
  ELSE ForecastsReversed(Tail(daily))
         \o << [date |-> FormatDate(Head(daily).date),
                 high_temperature |-> Head(daily).highest_temperature,
                 low_temperature |-> Head(daily).lowest_temperature] >>

\* the list built by the loop over weather.daily_forecasts
RECURSIVE Forecasts(_)
Forecasts(daily) ==
  IF daily = <<>> THEN <<>>
  ELSE << [date |-> FormatDate(Head(daily).date),
           high_temperature |-> Head(daily).highest_temperature,
           low_temperature |-> Head(daily).lowest_temperature] >>
         \o Forecasts(Tail(daily))

\* the response map of call_tool (the fields of the modelled Forecast)
WeatherData(weather) ==
  [currently |->
     [current_temperature |-> weather.base.temperature,
      feels_like |-> weather.base.feels_like,
      humidity |-> weather.base.humidity,
      description |-> weather.base.description,
      forecasts |-> Forecasts(weather.daily_forecasts)]]

\* the rest of call_tool once get_forecast has returned or raised
Finish(fetch) ==
  IF fetch.kind = "return" THEN Return(WeatherData(fetch.val))
  ELSE IF fetch.kind = "raise" THEN Raise(Wrap(fetch.exc))
  ELSE Raise(Wrap(Exc("AttributeError",
       "'NoneType' object has no attribute 'daily_forecasts'")))

(***************************************************************************)
(* State.  Each invocation of call_tool is a coroutine; it is suspended    *)
(* at client.get (pc = "get") or at asyncio.sleep (pc = "sleep").          *)
(***************************************************************************)
VARIABLES
  env,        \* what callers and the weather source may send in this run
  pc,         \* per invocation: "idle", "get", "sleep" or "done"
  request,    \* per invocation: the (name, arguments) it was called with
  attempt,    \* per coroutine frame: the loop variable of _fetch_url
  gets,       \* per invocation: client.get calls started so far
  received,   \* per invocation: the replies to its requests, in order
  sleeps,     \* per invocation: the asyncio.sleep durations, in order
  fetched,    \* per invocation: how get_forecast ended
  outcome,    \* per invocation: how call_tool ended
  build       \* a direct build of the data model (SpecBuild)

vars ==
  <<env, pc, request, attempt, gets, received, sleeps, fetched, outcome,
    build>>

Calls == DOMAIN pc

\* faulty variant: the loop variable lives in one place for all invocations
SharedFrame(i) == 1

\* the coroutine frame holding the locals of invocation i
Frame(i) == i

NoRequest == Request("", NotADict("NoneType"))

Pending == [kind |-> "pending"]

NoBuild == [phase |-> "none"]

InitCalls(n, e) ==
  /\ env = e
  /\ pc = [i \in 1..n |-> "idle"]
  /\ request = [i \in 1..n |-> NoRequest]
  /\ attempt = [i \in 1..n |-> 0]
  /\ gets = [i \in 1..n |-> 0]
  /\ received = [i \in 1..n |-> <<>>]
  /\ sleeps = [i \in 1..n |-> <<>>]
  /\ fetched = [i \in 1..n |-> Pending]
  /\ outcome = [i \in 1..n |-> Pending]

Init ==
  /\ InitCalls(1, [responses |-> Responses, requests |-> Requests])
  /\ build = NoBuild

InitConc ==
  /\ InitCalls(MaxCalls,
               [responses |-> ConcResponses, requests |-> ConcRequests])
  /\ build = NoBuild

\* call_tool up to its first suspension: the two checks, then
\* Weather(...).get_forecast(location_name) up to the first client.get
CallTool(i, req) ==
  /\ pc[i] = "idle"
  /\ request' = [request EXCEPT ![i] = req]
  /\ LET invalid == Validate(req.name, req.arguments)
         url == QuotePlus(req.arguments.items["location_name"])
     IN IF invalid # NoError
          THEN /\ pc' = [pc EXCEPT ![i] = "done"]
               /\ outcome' = [outcome EXCEPT ![i] = Raise(invalid)]
               /\ UNCHANGED <<attempt, gets, fetched>>
        ELSE IF ~url.ok
          THEN /\ pc' = [pc EXCEPT ![i] = "done"]
               /\ fetched' = [fetched EXCEPT ![i] = Raise(url.exc)]
               /\ outcome' = [outcome EXCEPT ![i] = Finish(Raise(url.exc))]
               /\ UNCHANGED <<attempt, gets>>
        ELSE /\ pc' = [pc EXCEPT ![i] = "get"]
             /\ attempt' = [attempt EXCEPT ![Frame(i)] = 0]
             /\ gets' = [gets EXCEPT ![i] = 1]
             /\ UNCHANGED <<fetched, outcome>>
  /\ UNCHANGED <<env, received, sleeps, build>>

\* the coroutine of invocation i runs from a completed client.get to its
\* next suspension (the backoff sleep) or to the end of call_tool
Resume(i, step) ==
  IF step.kind = "sleep"
    THEN /\ pc' = [pc EXCEPT ![i] = "sleep"]
         /\ sleeps' = [sleeps EXCEPT ![i] = Append(@, step.secs)]
         /\ UNCHANGED <<fetched, outcome>>
  ELSE /\ pc' = [pc EXCEPT ![i] = "done"]
       /\ fetched' = [fetched EXCEPT ![i] = step]
       /\ outcome' = [outcome EXCEPT ![i] = Finish(step)]
       /\ UNCHANGED sleeps

\* client.get completes with resp
HttpReply(i, resp) ==
  /\ pc[i] = "get"
  /\ received' = [received EXCEPT ![i] = Append(@, resp)]
  /\ \E step \in {fetch_url_attempt(attempt[Frame(i)], resp,
                                     WeatherUnit("imperial"), "en")} :
       Resume(i, step)
  /\ UNCHANGED <<env, request, attempt, gets, build>>

\* asyncio.sleep completes; the for loop takes its next value, or is
\* exhausted and _fetch_url returns None
Wake(i) ==
  /\ pc[i] = "sleep"
  /\ attempt' = [attempt EXCEPT ![Frame(i)] = @ + 1]
  /\ IF attempt[Frame(i)] + 1 < max_retries
       THEN /\ pc' = [pc EXCEPT ![i] = "get"]
            /\ gets' = [gets EXCEPT ![i] = @ + 1]
            /\ UNCHANGED <<fetched, outcome>>
     ELSE /\ pc' = [pc EXCEPT ![i] = "done"]
          /\ fetched' = [fetched EXCEPT ![i] = [kind |-> "none"]]
          /\ outcome' = [outcome EXCEPT ![i] = Finish([kind |-> "none"])]
          /\ UNCHANGED gets
  /\ UNCHANGED <<env, request, received, sleeps, build>>

Next ==
  \/ \E i \in Calls : \E req \in env.requests : CallTool(i, req)
  \/ \E i \in Calls : \E resp \in env.responses : HttpReply(i, resp)
  \/ \E i \in Calls : Wake(i)

Spec == Init /\ [][Next]_vars

SpecConc == InitConc /\ [][Next]_vars

\* the request of invocation i completes: client.get raises a transport
\* error, or it returns a response
Reply(i) ==
  \/ \E resp \in {r \in env.responses : r.error # "none"} : HttpReply(i, resp)
  \/ \E resp \in {r \in env.responses : r.error = "none"} : HttpReply(i, resp)

\* every client.get and every asyncio.sleep that was awaited completes
Fairness ==
  \A i \in 1..MaxCalls :
    /\ WF_vars(i \in Calls /\ Reply(i))
    /\ WF_vars(i \in Calls /\ Wake(i))

\* one invocation of call_tool whose awaits all complete
SpecLive == Init /\ [][Next]_vars /\ Fairness

(***************************************************************************)
(* Direct builds of the data model: Forecast(json, unit, locale) applied   *)
(* to a document object, whose content is followed through the call.       *)
(***************************************************************************)
BuildDays == {Day1, Day2, DayBadDate, DayBadHour, DayNoFahrenheit}

RECURSIVE SeqsUpTo(_, _)
SeqsUpTo(S, n) ==
  IF n = 0 THEN {<<>>}
  ELSE LET shorter == SeqsUpTo(S, n - 1)
       IN shorter \cup {Append(q, x) : q \in shorter, x \in S}

BuildDocs ==
  {Document(c, w) : c \in {GoodCurrent, BadCurrent},
                    w \in SeqsUpTo(BuildDays, MaxDays)}
    \cup {DocNoWeather}

InitBuild ==
  /\ env = [responses |-> {}, requests |-> {}]
  /\ pc = <<>> /\ request = <<>> /\ attempt = <<>> /\ gets = <<>>
  /\ received = <<>> /\ sleeps = <<>> /\ fetched = <<>> /\ outcome = <<>>
  /\ \E d \in BuildDocs : \E u \in {"imperial", "metric"} :
       build = [phase |-> "given", raw |-> d, unit |-> u, locale |-> "en",
                json |-> d]

\* the document object and the result after a constructor call f
Built(phase, f) ==
  [phase |-> phase, raw |-> build.raw, unit |-> build.unit,
   locale |-> build.locale, json |-> f.json,
   result |-> IF f.ok THEN Return(f.val) ELSE Raise(f.exc)]

\* Forecast(json, unit, locale) on the document object
BuildForecast ==
  /\ build.phase = "given"
  /\ build' = Built("built", Forecast(build.json, WeatherUnit(build.unit),
                                      build.locale))
  /\ UNCHANGED <<env, pc, request, attempt, gets, received, sleeps, fetched,
                 outcome>>

\* a second Forecast(json, unit, locale) on the same document object
BuildAgain ==
  /\ build.phase = "built"
  /\ build' = Built("rebuilt", Forecast(build.json, WeatherUnit(build.unit),
                                        build.locale))
  /\ UNCHANGED <<env, pc, request, attempt, gets, received, sleeps, fetched,
                 outcome>>

NextBuild == BuildForecast \/ BuildAgain

SpecBuild == InitBuild /\ [][NextBuild]_vars

(***************************************************************************)
(* Vocabulary of the properties.                                           *)
(***************************************************************************)
\* a reply whose status is an error status and which is not the
\* 404-with-content case
StatusFailure(resp) ==
  /\ resp.error = "none"
  /\ resp.status \in 400..599
  /\ ~(resp.status = 404 /\ resp.body.form # "empty")

\* a reply that is accepted as a payload
Accepted(resp) ==
  /\ resp.error = "none"
  /\ \/ resp.status \in 200..299
     \/ resp.status = 404 /\ resp.body.form # "empty"

\* the sample documents of the expected shape
GoodDocs == {DocBerlin, DocOneDay, DocNoDays}

ValidBody(body) == body.form = "json" /\ body.doc \in GoodDocs

ParseErrors == {"JSONDecodeError", "KeyError", "ValueError", "IndexError"}

ValidRequest(req) ==
  /\ req.name = "get_current_weather"
  /\ req.arguments.type = "dict"
  /\ "location_name" \in DOMAIN req.arguments.items

Last(q) == q[Len(q)]

RECURSIVE SumSeq(_)
SumSeq(q) == IF q = <<>> THEN 0 ELSE Head(q) + SumSeq(Tail(q))

\* invocation i has ended at its n-th attempt, with nothing after it
EndedAt(i, n) ==
  /\ pc[i] = "done"
  /\ Len(received[i]) = n
  /\ gets[i] = n
  /\ Len(sleeps[i]) = n - 1

\* C1: a further attempt follows only a status failure; there are never
\* more than 3 attempts; a fetch that ends on a valid 200 after k status
\* failures has made k+1 attempts and returns a Forecast; a status failure
\* ends the fetch only as the 3rd attempt, and then its status error is
\* what the fetch raises.
C1_RetryOnlyOnStatusFailure ==
  \A i \in Calls :
    /\ gets[i] <= 3
    /\ \A n \in 1..Len(received[i]) :
         n < gets[i] => StatusFailure(received[i][n])
    /\ (pc[i] = "done" /\ received[i] # <<>>) =>
         /\ gets[i] = Len(received[i])
         /\ (Last(received[i]).error = "none"
               /\ Last(received[i]).status = 200
               /\ ValidBody(Last(received[i]).body))
              => fetched[i].kind = "return"
         /\ StatusFailure(Last(received[i])) =>
              /\ gets[i] = 3
              /\ fetched[i] = Raise(RaiseForStatus(Last(received[i])).exc)
              /\ outcome[i].kind = "raise"

\* two HTTP 500 replies, then a 200 with a valid body: 3 attempts, a Forecast
C1_Witness ==
  \E i \in Calls :
    /\ pc[i] = "done"
    /\ received[i] = <<Response(500, EmptyBody), Response(500, EmptyBody),
                       Response(200, JsonBody(DocBerlin))>>
    /\ gets[i] = 3
    /\ fetched[i].kind = "return"

\* C2: a 404 reply with a non-empty body ends the fetch at its attempt:
\* nothing is requested and nothing is slept after it, and the fetch ends
\* as the parse of that body ends.
C2_PartialContentIsPayload ==
  \A i \in Calls : \A n \in 1..Len(received[i]) :
    (received[i][n].error = "none" /\ received[i][n].status = 404
       /\ received[i][n].body.form # "empty")
      => /\ EndedAt(i, n)
         /\ ValidBody(received[i][n].body) =>
              /\ fetched[i].kind = "return"
              /\ outcome[i].kind = "return"
         /\ ~ValidBody(received[i][n].body) =>
              /\ fetched[i].kind = "raise"
              /\ fetched[i].exc.type \in ParseErrors

\* a 404 with a JSON body as the first reply: 1 attempt, a successful parse
C2_Witness ==
  \E i \in Calls :
    /\ pc[i] = "done"
    /\ received[i] = <<Response(404, JsonBody(DocBerlin))>>
    /\ gets[i] = 1
    /\ sleeps[i] = <<>>
    /\ fetched[i].kind = "return"

\* C3: a transport failure on attempt n ends the fetch at attempt n: the
\* transport error is what the fetch raises, and no sleep follows it.
C3_TransportErrorNotRetried ==
  \A i \in Calls : \A n \in 1..Len(received[i]) :
    received[i][n].error # "none"
      => /\ EndedAt(i, n)
         /\ fetched[i].kind = "raise"
         /\ fetched[i].exc.type = received[i][n].error
         /\ outcome[i].kind = "raise"

\* a connection failure on the 2nd attempt
C3_Witness ==
  \E i \in Calls :
    /\ pc[i] = "done"
    /\ received[i] = <<Response(500, EmptyBody),
                       TransportFailure("ConnectError")>>
    /\ gets[i] = 2
    /\ sleeps[i] = <<1>>
    /\ fetched[i].exc.type = "ConnectError"

\* C4: a reply accepted as a payload whose body does not parse ends the
\* fetch at its attempt with the parse error; no attempt and no sleep
\* follows it.
C4_ParseErrorNotRetried ==
  \A i \in Calls : \A n \in 1..Len(received[i]) :
    (Accepted(received[i][n]) /\ ~ValidBody(received[i][n].body))
      => /\ EndedAt(i, n)
         /\ fetched[i].kind = "raise"
         /\ fetched[i].exc.type \in ParseErrors
         /\ outcome[i].kind = "raise"

\* an unparsable hourly temperature in the body of the 3rd attempt
C4_Witness ==
  \E i \in Calls :
    /\ pc[i] = "done"
    /\ received[i] = <<Response(500, EmptyBody), Response(503, TextBody),
                       Response(200, JsonBody(DocBadHour))>>
    /\ sleeps[i] = <<1, 2>>
    /\ fetched[i].kind = "raise"
    /\ fetched[i].exc.type = "ValueError"

C5_EveryErrorWrapped ==
  \A i \in Calls :
    outcome[i].kind = "raise" => outcome[i].exc.type = "RuntimeError"

\* C5 (amended): an error of the fetch or parse (step 3) is surfaced as a
\* RuntimeError whose message is "Weather API error: " followed by the
\* original message; an unknown tool name or invalid arguments (steps 1-2)
\* is surfaced as the ValueError the check raised, not wrapped.
C5_FetchErrorsWrapped ==
  \A i \in Calls :
    outcome[i].kind = "raise" =>
      IF ValidRequest(request[i])
        THEN /\ fetched[i].kind = "raise"
             /\ outcome[i].exc.type = "RuntimeError"
             /\ outcome[i].exc.msg
                  = "Weather API error: " \o fetched[i].exc.msg
      ELSE /\ fetched[i] = Pending
           /\ outcome[i].exc.type = "ValueError"
           /\ outcome[i].exc.msg \in
                {"Unknown tool: " \o request[i].name,
                 "Invalid weather arguments"}

\* the status error of a 3rd failed attempt, surfaced wrapped
C5_Witness ==
  \E i \in Calls :
    /\ pc[i] = "done"
    /\ gets[i] = 3
    /\ fetched[i] = Raise(Exc("HTTPStatusError", "HTTP status 503"))
    /\ outcome[i]
         = Raise(Exc("RuntimeError", "Weather API error: HTTP status 503"))

\* C6: an invocation with another tool name ends with the unknown-tool
\* error whatever its arguments are; one with the right name and arguments
\* that are no mapping or lack "location_name" ends with the
\* invalid-arguments error; neither ever starts an HTTP attempt.
C6_ValidateBeforeFetch ==
  \A i \in Calls :
    pc[i] # "idle" =>
      /\ request[i].name # "get_current_weather" =>
           /\ pc[i] = "done"
           /\ outcome[i]
                = Raise(Exc("ValueError",
                            "Unknown tool: " \o request[i].name))
           /\ gets[i] = 0 /\ received[i] = <<>> /\ sleeps[i] = <<>>
      /\ (request[i].name = "get_current_weather"
            /\ ~ValidRequest(request[i])) =>
           /\ pc[i] = "done"
           /\ outcome[i]
                = Raise(Exc("ValueError", "Invalid weather arguments"))
           /\ gets[i] = 0 /\ received[i] = <<>> /\ sleeps[i] = <<>>

\* an unknown tool name together with arguments that are no mapping
C6_Witness ==
  \E i \in Calls :
    /\ pc[i] = "done"
    /\ request[i] = Request("get_forecast", NotADict("list"))
    /\ outcome[i] = Raise(Exc("ValueError", "Unknown tool: get_forecast"))
    /\ gets[i] = 0

\* C8: a build leaves the document it was given as it was, whether it
\* succeeds or fails.
C8_BuildLeavesDocumentUnchanged ==
  build.phase \in {"built", "rebuilt"} => build.json = build.raw

\* C9: the forecasts list of a returned payload has one entry per element
\* of weather[] of the document that was parsed, in the same order, each
\* with that day's date (as YYYY-MM-DD), its maxtempF as the high and its
\* mintempF as the low temperature.
C9_ForecastsFollowWeather ==
  \A i \in Calls :
    outcome[i].kind = "return" =>
      LET weather == Last(received[i]).body.doc.weather
          forecasts == outcome[i].val.currently.forecasts
      IN /\ Len(forecasts) = Len(weather)
         /\ \A n \in 1..Len(weather) :
              /\ Len(forecasts[n].date) = 10
              /\ ParseDate(forecasts[n].date) = ParseDate(weather[n].date)
              /\ PyInt(weather[n].maxtempF)
                   = [ok |-> TRUE, val |-> forecasts[n].high_temperature]
              /\ PyInt(weather[n].mintempF)
                   = [ok |-> TRUE, val |-> forecasts[n].low_temperature]

\* the three days of the Berlin sample, in the order received
C9_Witness ==
  \E i \in Calls :
    /\ outcome[i].kind = "return"
    /\ Last(received[i]) = Response(200, JsonBody(DocBerlin))
    /\ outcome[i].val.currently.forecasts
         = << [date |-> <<"2", "0", "2", "4", "-", "0", "2", "-", "2", "8">>,
               high_temperature |-> 50, low_temperature |-> 39],
              [date |-> <<"2", "0", "2", "4", "-", "0", "2", "-", "2", "9">>,
               high_temperature |-> 46, low_temperature |-> 30],
              [date |-> <<"2", "0", "2", "4", "-", "0", "3", "-", "0", "1">>,
               high_temperature |-> 61, low_temperature |-> 44] >>

(***************************************************************************)
(* The reference for C10: the attempt count and the outcome of one         *)
(* invocation that runs alone, called with req and answered by replies.    *)
(***************************************************************************)
SoloEnd(n, step) == [gets |-> n, fetched |-> step, outcome |-> Finish(step)]

RECURSIVE SoloFetch(_, _)
SoloNext(a, replies, step) ==
  IF step.kind # "sleep" THEN SoloEnd(a + 1, step)
  ELSE IF a + 1 < max_retries /\ Tail(replies) # <<>>
    THEN SoloFetch(a + 1, Tail(replies))
  ELSE SoloEnd(a + 1, [kind |-> "none"])

SoloFetch(a, replies) ==
  SoloNext(a, replies,
           fetch_url_attempt(a, Head(replies), WeatherUnit("imperial"),
                             "en"))

Solo(req, replies) ==
  IF ~ValidRequest(req)
    THEN [gets |-> 0, fetched |-> Pending,
          outcome |-> Raise(Validate(req.name, req.arguments))]
  ELSE IF replies = <<>>
    THEN SoloEnd(0, Raise(QuotePlus(req.arguments.items["location_name"]).exc))
  ELSE SoloFetch(0, replies)

\* C10: under every interleaving, an invocation that has ended has made
\* the attempts and has the outcome it would have alone with its own
\* request and replies; while it is in flight its loop variable counts its
\* own requests only, and it never makes more than 3 attempts.
C10_InvocationsIndependent ==
  \A i \in Calls :
    /\ gets[i] <= max_retries
    /\ pc[i] \in {"get", "sleep"} => attempt[i] = gets[i] - 1
    /\ pc[i] = "get" => Len(received[i]) = gets[i] - 1
    /\ pc[i] = "sleep" => Len(received[i]) = gets[i]
    /\ pc[i] = "done" =>
         /\ gets[i] = Solo(request[i], received[i]).gets
         /\ fetched[i] = Solo(request[i], received[i]).fetched
         /\ outcome[i] = Solo(request[i], received[i]).outcome

\* one invocation has used its 3 attempts and failed while another, called
\* meanwhile, has succeeded at its 2nd attempt
C10_Witness ==
  \E i, j \in Calls :
    /\ i # j
    /\ pc[i] = "done" /\ gets[i] = 3 /\ outcome[i].kind = "raise"
    /\ StatusFailure(Last(received[i]))
    /\ pc[j] = "done" /\ gets[j] = 2 /\ outcome[j].kind = "return"

\* invocation i has called _fetch_url (its location is a str, so that
\* get_forecast could build the URL)
FetchCalled(i) ==
  /\ pc[i] # "idle"
  /\ ValidRequest(request[i])
  /\ request[i].arguments.items["location_name"].type = "str"

\* the fetch of invocation i has ended with a Forecast or with an error,
\* after 1 to 3 attempts, and not by the loop running out
FetchEndedProperly(i) ==
  /\ pc[i] = "done"
  /\ fetched[i].kind \in {"return", "raise"}
  /\ gets[i] \in 1..3
  /\ outcome[i].kind = "return" <=> fetched[i].kind = "return"

\* C11: if every request and every sleep completes, a fetch that was
\* called ends; when it has ended it has returned a Forecast or raised an
\* error after at least 1 and at most 3 attempts, and it has never ended
\* with the None of an exhausted loop (which call_tool would read as a
\* forecast).
C11_FetchTerminatesProperly ==
  /\ [](\A i \in Calls :
          /\ fetched[i].kind # "none"
          /\ (FetchCalled(i) /\ pc[i] = "done") => FetchEndedProperly(i))
  /\ \A i \in 1..MaxCalls :
       (i \in Calls /\ FetchCalled(i))
         ~> (i \in Calls /\ FetchEndedProperly(i))

\* the 3rd attempt of a fetch fails with a status error: the loop's last
\* iteration raises instead of running out
C11_Witness ==
  \E i \in Calls :
    /\ FetchCalled(i)
    /\ pc[i] = "done"
    /\ gets[i] = 3
    /\ attempt[i] = max_retries - 1
    /\ received[i] = <<Response(503, TextBody), Response(404, EmptyBody),
                       Response(500, EmptyBody)>>
    /\ fetched[i] = Raise(Exc("HTTPStatusError", "HTTP status 500"))

====
